---- MODULE Spec2Model ----
(***************************************************************************)
(* AT-ST: the solution evaluation pipeline (src/src/lib.rs, run) and its   *)
(* stages (src/src/modules.rs).                                            *)
(*                                                                         *)
(* Scores are f64 in the source; here they are integers counting tenths of *)
(* a point (0.5 is 5), so sums are exact.  Strings are sequences of        *)
(* one-character strings.                                                  *)
(*                                                                         *)
(* Spec      the whole of run: every solution, every module.               *)
(* SpecTest  one execution of TestExec::execute on one solution, for every *)
(*           test list of at most MaxTests tests of at most MaxCases cases.*)
(***************************************************************************)
EXTENDS Integers, Sequences, FiniteSets, TLC

\* ------------------------------------------------------------------ bounds
NumSolutions == 2
MaxScripts == 1
MaxTests == 2
MaxCases == 2
\* The kernel's pipe buffer, in characters: a write of more than this many
\* characters to a pipe nobody reads does not return.
PipeCapacity == 1

\* ---------------------------------------------------------------- strings
Whitespace == {" ", "\n"}

Option(S) == [some : {FALSE}, val : {<<>>}] \cup [some : {TRUE}, val : S]
None == [some |-> FALSE, val |-> <<>>]
Some(v) == [some |-> TRUE, val |-> v]

SeqsUpTo(S, n) == UNION {[1..k -> S] : k \in 0..n}

RECURSIVE TrimStart(_)
TrimStart(s) ==
    IF s # <<>> /\ Head(s) \in Whitespace THEN TrimStart(Tail(s)) ELSE s

RECURSIVE TrimEnd(_)
TrimEnd(s) ==
    IF s # <<>> /\ s[Len(s)] \in Whitespace
    THEN TrimEnd(SubSeq(s, 1, Len(s) - 1))
    ELSE s

\* str::trim
Trim(s) == TrimEnd(TrimStart(s))

LowerChar(c) ==
    CASE c = "A" -> "a"
      [] c = "H" -> "h"
      [] c = "I" -> "i"
      [] OTHER -> c

\* str::to_lowercase
ToLowercase(s) == [i \in 1..Len(s) |-> LowerChar(s[i])]

\* What a child wrote to one of its output pipes: a string, or bytes that are
\* not valid UTF-8 (then necessarily not empty).
InvalidUtf8 == [utf8 |-> FALSE, text |-> <<>>]
Text(s) == [utf8 |-> TRUE, text |-> s]

\* Read::read_to_string into an empty buffer, its error dropped by `let _`:
\* on bytes that are not UTF-8 the buffer stays empty.
ReadToString(stream) == IF stream.utf8 THEN stream.text ELSE <<>>

MatchWildcard(output) == output # <<>>

MatchOutputNoneFails(stream, expected, case_insensitive) ==
    IF expected.some
    THEN LET out0 == Trim(ReadToString(stream))
             exp0 == Trim(expected.val)
             output == IF case_insensitive THEN ToLowercase(out0) ELSE out0
             exp == IF case_insensitive THEN ToLowercase(exp0) ELSE exp0
         IN  IF exp = <<"*">> THEN MatchWildcard(output) ELSE exp = output
    ELSE ReadToString(stream) = <<>>

\* match_output; the stream handle is always present (the child's stdout and
\* stderr are piped at spawn), so the InternalError of line 243 cannot occur.
match_output(stream, expected, case_insensitive) ==
    IF expected.some
    THEN LET out0 == Trim(ReadToString(stream))
             exp0 == Trim(expected.val)
             output == IF case_insensitive THEN ToLowercase(out0) ELSE out0
             exp == IF case_insensitive THEN ToLowercase(exp0) ELSE exp0
         IN  IF exp = <<"*">> THEN MatchWildcard(output) ELSE exp = output
    ELSE TRUE

\* ----------------------------------------------------------- configuration
Requirements == {"ALL", "ANY"}

SmallPayload == <<"a">>
LargePayload == [k \in 1..(PipeCapacity + 1) |-> "a"]

TestCase(stdin, stdout, stderr, ci) ==
    [stdin |-> stdin, stdout |-> stdout, stderr |-> stderr, case_insensitive |-> ci]

\* The test cases the test lists are made of (args are handed to the child
\* unchanged and decide nothing in the runner, so they are left out).
CaseSet ==
    { TestCase(None, None, None, FALSE),
      TestCase(Some(LargePayload), Some(<<"*">>), None, FALSE),
      TestCase(Some(SmallPayload), Some(<<"H", "i">>), Some(<<"a", " ">>), TRUE) }

TestScores == {10, 25}

TestSet ==
    [score : TestScores, requirement : Requirements,
     test_cases : SeqsUpTo(CaseSet, MaxCases)]

NoTest == [score |-> 0, requirement |-> "ALL", test_cases |-> <<>>]

\* The streams a child can leave in a pipe.
Streams ==
    { Text(<<>>), Text(<<" ">>), Text(<<"a">>), Text(<<"h", "i", "\n">>), InvalidUtf8 }

\* The test list of the whole-run specification's second configuration.
RunTests ==
    << [score |-> 10, requirement |-> "ALL",
        test_cases |-> << TestCase(Some(SmallPayload), Some(<<"a">>), None, FALSE),
                          TestCase(None, None, None, FALSE) >>],
       [score |-> 25, requirement |-> "ANY",
        test_cases |-> << TestCase(None, Some(<<"*">>), None, FALSE),
                          TestCase(None, Some(<<"*">>), None, FALSE) >>] >>

AnalyserKinds == {"NoCall", "NoHeader", "NoGlobals"}

\* Its analyser list (penalties in tenths of a point).
RunAnalysers ==
    << [kind |-> "NoHeader", header |-> "stdio.h", penalty |-> -10],
       [kind |-> "NoGlobals", header |-> "", penalty |-> -20] >>

\* The configurations of the whole-run specification: nothing but the
\* compiler and the parser to run, or tests and analysers.
RunConfigs ==
    { [tests |-> <<>>, analysers |-> <<>>],
      [tests |-> RunTests, analysers |-> RunAnalysers] }

\* Module::execute results and the errors of AtstError.
Ok == "Ok"
ExecError == "ExecError"
InternalError == "InternalError"
SolutionExecErr == "SolutionExecErr"
Panic == "panic"
Errors == {ExecError, InternalError, SolutionExecErr}

\* The score change of a compilation with warnings, in tenths of a point.
WarningPenalty == 5

VARIABLES
    tests,          \* TestExec.tests of the run (Config.tests)
    analysers,      \* AnalysesExec.analysers
    scripts,        \* number of configured scripts
    nsol,           \* number of solutions found
    fs,             \* the files of the current solution's directory
    sol,            \* the Solution record the loop of run holds
    modules,        \* the module list run builds
    cur,            \* the solution the for loop of run is at
    m,              \* the module the inner loop of run is at
    pc,             \* where run is
    mret,           \* what the last execute returned
    result,         \* the result map of run
    ret,            \* what run returned
    log,            \* history: the (solution, module) executions, in order
    seen,           \* history: whether each solution reached had its source
    finals,         \* history: each solution's score when its last module returned
    cmds,           \* history: how the commands of the last Compiler::execute ended
    deltas,         \* history: the score change of each stage run on the current solution
    ti,             \* TestExec: number of tests taken from the list
    test,           \* TestExec: the test the outer loop is at
    ci,             \* TestExec: number of cases taken from test.test_cases
    cases_passed,   \* TestExec: the counter of line 177
    tpc,            \* TestExec: where the case is
    child,          \* TestExec: the unspawned process
    outcomes,       \* history: pass/fail of the cases of the current test
    trace,          \* history: the steps of the current case, in order
    spawns,         \* history: the cases unspawned for the current test, in order
    awards,         \* history: how many times the stage changed the score
    last_delta,     \* history: the last score change of the stage
    due,            \* history: sum of the scores of the fulfilled tests
    unspawned,      \* history: the cases of the tests taken that have no process yet
    start_score,    \* history: the score when the stage started
    arg,            \* the inputs of a function applied on its own
    res             \* what the function returned

cfgvars == <<tests, analysers, scripts, nsol>>
runvars ==
    <<fs, sol, modules, cur, m, pc, mret, result, ret, log, seen, finals, cmds,
      deltas>>
testvars ==
    <<ti, test, ci, cases_passed, tpc, child, outcomes, trace, spawns, awards,
      last_delta, due, unspawned, start_score>>
fnvars == <<arg, res>>
vars == <<cfgvars, runvars, testvars, fnvars>>

\* ------------------------------------------------------------ the solution
\* The source file name of the configuration (config.rs line 93), a sequence
\* of characters.
SrcFile == <<"m", ".", "c">>

\* Where the extension of a file name starts: its last dot, unless that is
\* its first character; 0 if it has no extension.
LastDot(name) ==
    LET dots == {i \in 2..Len(name) : name[i] = "."}
    IN  IF dots = {} THEN 0 ELSE CHOOSE i \in dots : \A j \in dots : j <= i

\* Path::file_stem and Path::with_extension (lib.rs lines 33-34).
FileStem(name) ==
    IF LastDot(name) = 0 THEN name ELSE SubSeq(name, 1, LastDot(name) - 1)

WithExtension(name, ext) == FileStem(name) \o <<".">> \o ext

\* Solution::new: the record of the solution of directory path, before any
\* module ran.
SolutionNew(path) ==
    [path |-> path,
     src_file |-> SrcFile,
     bin_file |-> FileStem(SrcFile),
     obj_file |-> WithExtension(SrcFile, <<"o">>),
     included |-> <<>>,
     source |-> "",
     score |-> 0]

\* The record of the first solution.
NewSolution == SolutionNew(1)

Artifacts == {"absent", "stale", "built"}

\* What run can find in a solution directory when it reaches it: artifacts
\* left by an earlier evaluation are "stale".
FsStates == [src : BOOLEAN, obj : {"absent", "stale"}, bin : {"absent", "stale"}]

NoFs == [src |-> FALSE, obj |-> "absent", bin |-> "absent"]

Module(kind, script) == [kind |-> kind, script |-> script]

BuildModulesParserFirst(n) ==
    << Module("Parser", 0), Module("Compiler", 0), Module("TestExec", 0),
       Module("AnalysesExec", 0) >>
    \o [i \in 1..n |-> Module("ScriptExec", i)]

\* run, lines 144-151: the modules, in the order they are run on each solution.
BuildModules(n) ==
    << Module("Compiler", 0), Module("Parser", 0), Module("TestExec", 0),
       Module("AnalysesExec", 0) >>
    \o [i \in 1..n |-> Module("ScriptExec", i)]

NoRet == [kind |-> "none", err |-> "", map |-> <<>>]
RetOk(map) == [kind |-> "Ok", err |-> "", map |-> map]
RetErr(e) == [kind |-> "Err", err |-> e, map |-> <<>>]

\* No command of the compiler stage has been run.
NoCmds == [cc |-> "none", ld |-> "none", we |-> "none"]

NoChild == [status |-> "none", hangs |-> FALSE, reads |-> FALSE, timedout |-> FALSE,
            reaped |-> FALSE]

\* No function is applied on its own.
NoArg == [case |-> TestCase(None, None, None, FALSE), out |-> Text(<<>>),
          err |-> Text(<<>>)]
NoRes == [done |-> FALSE, stdout |-> FALSE, stderr |-> FALSE, passed |-> FALSE]

FnIdle ==
    /\ arg = NoArg
    /\ res = NoRes

TestIdle ==
    /\ ti = 0
    /\ test = NoTest
    /\ ci = 0
    /\ cases_passed = 0
    /\ tpc = "idle"
    /\ child = NoChild
    /\ outcomes = <<>>
    /\ trace = <<>>
    /\ spawns = <<>>
    /\ awards = 0
    /\ last_delta = 0
    /\ due = 0
    /\ unspawned = 0
    /\ start_score = 0

\* The locals of TestExec::execute go out of scope.
TestLocalsDropped ==
    /\ test' = NoTest
    /\ ci' = 0
    /\ cases_passed' = 0
    /\ child' = NoChild
    /\ outcomes' = <<>>
    /\ trace' = <<>>
    /\ spawns' = <<>>

TestReset ==
    /\ TestLocalsDropped
    /\ ti' = 0
    /\ tpc' = "idle"
    /\ awards' = 0
    /\ last_delta' = 0
    /\ due' = 0
    /\ unspawned' = 0
    /\ start_score' = 0

\* run, up to line 131: the configuration is loaded and the solution
\* directories are listed.
Init ==
    /\ \E c \in RunConfigs :
        /\ tests = c.tests
        /\ analysers = c.analysers
    /\ scripts \in 0..MaxScripts
    /\ nsol \in 0..NumSolutions
    /\ fs = NoFs
    /\ sol = NewSolution
    /\ modules = <<>>
    /\ cur = 0
    /\ m = 0
    /\ pc = "start"
    /\ mret = "none"
    /\ result = <<>>
    /\ ret = NoRet
    /\ log = <<>>
    /\ seen = <<>>
    /\ finals = <<>>
    /\ cmds = NoCmds
    /\ deltas = <<>>
    /\ TestIdle
    /\ FnIdle

\* ---------------------------------------------------------------- the driver
\* run, lines 132-153.
Start ==
    /\ pc = "start"
    /\ IF nsol = 0
       THEN /\ pc' = "done"
            /\ ret' = RetOk(<<>>)
            /\ UNCHANGED <<modules, cur>>
       ELSE /\ modules' = BuildModules(scripts)
            /\ cur' = 1
            /\ pc' = "loop"
            /\ ret' = ret
    /\ UNCHANGED <<cfgvars, fnvars, cmds, deltas, fs, sol, m, mret, result, log, seen, finals, testvars>>

SourceFoundAlways(f) == TRUE

\* run, lines 165-166: src_file.exists().
SourceFound(f) == f.src

SolutionKept(last) == last

\* run, line 155: the loop moves the next Solution out of the list; it is as
\* Solution::new built it (lines 108, 128), whatever the solution the loop
\* held before (last) has become.
SolutionTaken(last) == SolutionNew(cur)

\* run, lines 155-170: the loop takes the next solution and looks for its
\* source file; f is what is in the solution's directory at that time.
NextSolution ==
    /\ pc = "loop"
    /\ cur <= nsol
    /\ \E f \in FsStates :
        /\ fs' = f
        /\ sol' = SolutionTaken(sol)
        /\ seen' = Append(seen, f.src)
        /\ IF SourceFound(f)
           THEN /\ pc' = "call"
                /\ m' = 1
                /\ cur' = cur
           ELSE /\ pc' = "loop"
                /\ cur' = cur + 1
                /\ m' = m
    /\ TestReset
    /\ cmds' = NoCmds
    /\ deltas' = <<>>
    /\ UNCHANGED <<cfgvars, fnvars, modules, mret, result, ret, log, finals>>

\* What the `?` of line 172 does with the value execute returned.
OnExecuteIgnoreErr(r) == "next"

OnExecute(r) == IF r = Ok THEN "next" ELSE "return"

InsertZero(map, name, score) == (name :> 0) @@ map

\* HashMap::insert, line 175.
Insert(map, name, score) == (name :> score) @@ map

ReturnPartial(map, e) == RetOk(map)

\* The Err(e) run returns from line 172: the map built so far is dropped.
ReturnErr(map, e) == RetErr(e)

\* run, lines 171-173: execute returned mret.
ModuleReturned ==
    /\ pc = "ret"
    /\ IF OnExecute(mret) = "next"
       THEN /\ IF m < Len(modules)
               THEN /\ m' = m + 1
                    /\ pc' = "call"
               ELSE /\ m' = m
                    /\ pc' = "record"
            /\ ret' = ret
       ELSE /\ ret' = ReturnErr(result, mret)
            /\ pc' = "done"
            /\ m' = m
    /\ finals' = IF mret = Ok /\ m = Len(modules)
                 THEN (cur :> sol.score) @@ finals
                 ELSE finals
    /\ UNCHANGED <<cfgvars, fnvars, cmds, deltas, fs, sol, modules, cur, mret, result, log, seen, testvars>>

\* run, lines 174-176: the score is recorded and the loop goes on.
Record ==
    /\ pc = "record"
    /\ result' = Insert(result, cur, sol.score)
    /\ cur' = cur + 1
    /\ pc' = "loop"
    /\ UNCHANGED <<cfgvars, fnvars, cmds, deltas, fs, sol, modules, m, mret, ret, log, seen, finals, testvars>>

\* run, line 178.
Return ==
    /\ pc = "loop"
    /\ cur > nsol
    /\ ret' = RetOk(result)
    /\ pc' = "done"
    /\ UNCHANGED <<cfgvars, fnvars, cmds, deltas, fs, sol, modules, cur, m, mret, result, log, seen, finals, testvars>>

Calling(kind) ==
    /\ pc = "call"
    /\ modules[m].kind = kind

Logged == Append(log, [sol |-> cur, mod |-> modules[m]])

\* execute returned r (or panicked: the process ends).
Returned(r) ==
    /\ mret' = r
    /\ pc' = IF r = Panic THEN "panicked" ELSE "ret"

\* ------------------------------------------------------------- the compiler
\* How an external command can end: it cannot be run at all, it exits with a
\* failure status, or it exits with success.
CommandResults == {"exec_err", "fail", "ok"}

StageResult(f, s, r) == [fs |-> f, sol |-> s, ret |-> r]

CompilerFailureIsError(f, s, cc, ld, we) ==
    LET removed == [f EXCEPT !.obj = "absent", !.bin = "absent"]
    IN  IF cc = "ok" /\ ld = "ok"
        THEN StageResult([removed EXCEPT !.obj = "built", !.bin = "built"], s, Ok)
        ELSE StageResult(removed, s, ExecError)

CompilerKeepsArtifacts(f, s, cc, ld, we) ==
    LET compiled == [f EXCEPT !.obj = "built"]
        linked == [compiled EXCEPT !.bin = "built"]
    IN  CASE cc = "exec_err" -> StageResult(f, s, ExecError)
          [] cc = "fail" -> StageResult(f, s, Ok)
          [] cc = "ok" /\ ld = "exec_err" -> StageResult(compiled, s, ExecError)
          [] cc = "ok" /\ ld = "fail" -> StageResult(compiled, s, Ok)
          [] cc = "ok" /\ ld = "ok" /\ we = "fail" ->
                StageResult(linked, [s EXCEPT !.score = @ - WarningPenalty], Ok)
          [] OTHER -> StageResult(linked, s, Ok)

CompilerPenalisesFailure(f, s, cc, ld, we) ==
    LET removed == [f EXCEPT !.obj = "absent", !.bin = "absent"]
        compiled == [removed EXCEPT !.obj = "built"]
        linked == [compiled EXCEPT !.bin = "built"]
        penalised == [s EXCEPT !.score = @ - WarningPenalty]
    IN  CASE cc = "exec_err" -> StageResult(removed, s, ExecError)
          [] cc = "fail" -> StageResult(removed, penalised, Ok)
          [] cc = "ok" /\ ld = "exec_err" -> StageResult(compiled, s, ExecError)
          [] cc = "ok" /\ ld = "fail" -> StageResult(compiled, penalised, Ok)
          [] cc = "ok" /\ ld = "ok" /\ we = "fail" -> StageResult(linked, penalised, Ok)
          [] OTHER -> StageResult(linked, s, Ok)

CompilerDropsObject(f, s, cc, ld, we) ==
    LET removed == [f EXCEPT !.obj = "absent", !.bin = "absent"]
        compiled == [removed EXCEPT !.obj = "built"]
        linked == [compiled EXCEPT !.bin = "built"]
    IN  CASE cc = "exec_err" -> StageResult(removed, s, ExecError)
          [] cc = "fail" -> StageResult(removed, s, Ok)
          [] cc = "ok" /\ ld = "exec_err" -> StageResult(compiled, s, ExecError)
          [] cc = "ok" /\ ld = "fail" -> StageResult(removed, s, Ok)
          [] cc = "ok" /\ ld = "ok" /\ we = "exec_err" -> StageResult(linked, s, Panic)
          [] cc = "ok" /\ ld = "ok" /\ we = "fail" ->
                StageResult(linked, [s EXCEPT !.score = @ - WarningPenalty], Ok)
          [] OTHER -> StageResult(linked, s, Ok)

\* Compiler::execute.  cc, ld and we are the results of the compilation, of
\* the link and of the compilation with -Werror.  A successful compilation
\* leaves the object file, a successful link the binary; a failed one writes
\* nothing.  The artifacts of an earlier evaluation are files the evaluation
\* wrote itself in the solution's directory: remove_file (lines 38-39, its
\* result dropped) removes them.
\* Which of the three commands Compiler::execute runs, and how each ends: the
\* link is run only after a successful compilation (lines 50-56), the
\* compilation with -Werror only after a successful link (lines 59-70).
CommandsRun(cc, ld, we) ==
    [cc |-> cc,
     ld |-> IF cc = "ok" THEN ld ELSE "none",
     we |-> IF cc = "ok" /\ ld = "ok" THEN we ELSE "none"]

CompilerExecute(f, s, cc, ld, we) ==
    LET removed == [f EXCEPT !.obj = "absent", !.bin = "absent"]
        compiled == [removed EXCEPT !.obj = "built"]
        linked == [compiled EXCEPT !.bin = "built"]
    IN  CASE cc = "exec_err" -> StageResult(removed, s, ExecError)
          [] cc = "fail" -> StageResult(removed, s, Ok)
          [] cc = "ok" /\ ld = "exec_err" -> StageResult(compiled, s, ExecError)
          [] cc = "ok" /\ ld = "fail" -> StageResult(compiled, s, Ok)
          [] cc = "ok" /\ ld = "ok" /\ we = "exec_err" -> StageResult(linked, s, Panic)
          [] cc = "ok" /\ ld = "ok" /\ we = "fail" ->
                StageResult(linked, [s EXCEPT !.score = @ - WarningPenalty], Ok)
          [] OTHER -> StageResult(linked, s, Ok)

Compiler ==
    /\ Calling("Compiler")
    /\ \E cc \in CommandResults, ld \in CommandResults, we \in CommandResults :
        LET r == CompilerExecute(fs, sol, cc, ld, we)
        IN  /\ fs' = r.fs
            /\ sol' = r.sol
            /\ Returned(r.ret)
            /\ cmds' = CommandsRun(cc, ld, we)
            /\ deltas' = Append(deltas, r.sol.score - sol.score)
    /\ log' = Logged
    /\ UNCHANGED <<cfgvars, fnvars, modules, cur, m, result, ret, seen, finals, testvars>>

\* --------------------------------------------------------------- the parser
\* The angle-bracket includes a source file can hold, in the order found.
IncludeLists == {<<>>, <<"string.h", "stdio.h">>}

\* How the preprocessing of lines 122-148 can end.
PreprocessResults == {"exec_err", "wait_err", "not_utf8", "ok"}

ParserIgnoresOpenFailure(f, s, dos, open, incs, pp) ==
    LET parsed == [s EXCEPT !.included = @ \o (IF open THEN incs ELSE <<>>)]
    IN  CASE dos = "exec_err" -> StageResult(f, s, ExecError)
          [] dos # "exec_err" /\ pp = "exec_err" ->
                StageResult(f, parsed, ExecError)
          [] dos # "exec_err" /\ pp \in {"wait_err", "not_utf8"} ->
                StageResult(f, parsed, InternalError)
          [] OTHER -> StageResult(f, [parsed EXCEPT !.source = "preprocessed"], Ok)

ParserResetsScore(f, s, dos, open, incs, pp) ==
    StageResult(f, [s EXCEPT !.score = 0], IF dos = "exec_err" THEN ExecError ELSE Ok)

\* Parser::execute.  dos is the result of dos2unix, open whether the source
\* file can be opened, incs its includes, pp how the preprocessor ends.
ParserExecute(f, s, dos, open, incs, pp) ==
    LET parsed == [s EXCEPT !.included = @ \o incs]
    IN  CASE dos = "exec_err" -> StageResult(f, s, ExecError)
          [] dos # "exec_err" /\ ~open -> StageResult(f, s, Ok)
          [] dos # "exec_err" /\ open /\ pp = "exec_err" ->
                StageResult(f, parsed, ExecError)
          [] dos # "exec_err" /\ open /\ pp \in {"wait_err", "not_utf8"} ->
                StageResult(f, parsed, InternalError)
          [] OTHER -> StageResult(f, [parsed EXCEPT !.source = "preprocessed"], Ok)

Parser ==
    /\ Calling("Parser")
    /\ \E dos \in CommandResults, open \in BOOLEAN, incs \in IncludeLists,
          pp \in PreprocessResults :
        LET r == ParserExecute(fs, sol, dos, open, incs, pp)
        IN  /\ fs' = r.fs
            /\ sol' = r.sol
            /\ Returned(r.ret)
            /\ deltas' = Append(deltas, 0)
    /\ log' = Logged
    /\ UNCHANGED <<cfgvars, fnvars, cmds, modules, cur, m, result, ret, seen, finals, testvars>>

\* ------------------------------------------------------------ the analysers
AnalyseResults == {"true", "false", ExecError, InternalError}

\* What Analyser::analyse can return for analyser a on solution s with files
\* f.  NoHeader looks the header up in s.included; NoCall matches its pattern
\* set on s.source (an empty source never matches, a bad pattern is an
\* InternalError); NoGlobals runs nm on the object file (no object file, no
\* symbols).
Analyse(a, s, f) ==
    CASE a.kind = "NoHeader" ->
            {IF \E i \in 1..Len(s.included) : s.included[i] = a.header
             THEN "true" ELSE "false"}
      [] a.kind = "NoCall" ->
            IF s.source = "" THEN {"false", InternalError}
            ELSE {"true", "false", InternalError}
      [] OTHER ->
            IF f.obj = "absent" THEN {"false", ExecError}
            ELSE {"true", "false", ExecError, InternalError}

RECURSIVE AnalysesFromPenalisesAll(_, _, _, _, _)
AnalysesFromPenalisesAll(as, rs, i, f, s) ==
    IF i > Len(as) THEN StageResult(f, s, Ok)
    ELSE IF rs[i] \in Errors THEN StageResult(f, s, rs[i])
    ELSE AnalysesFromPenalisesAll(as, rs, i + 1, f,
                                  [s EXCEPT !.score = @ + as[i].penalty])

AnalysesExecuteClearsIncluded(as, rs, f, s) ==
    StageResult(f, [s EXCEPT !.included = <<>>], Ok)

\* AnalysesExec::execute from analyser i on, rs[i] being what analyse returns.
RECURSIVE AnalysesFrom(_, _, _, _, _)
AnalysesFrom(as, rs, i, f, s) ==
    IF i > Len(as) THEN StageResult(f, s, Ok)
    ELSE IF rs[i] \in Errors THEN StageResult(f, s, rs[i])
    ELSE AnalysesFrom(as, rs, i + 1, f,
                      IF rs[i] = "true"
                      THEN [s EXCEPT !.score = @ + as[i].penalty]
                      ELSE s)

AnalysesExecute(as, rs, f, s) == AnalysesFrom(as, rs, 1, f, s)

AnalysesExec ==
    /\ Calling("AnalysesExec")
    /\ \E rs \in [1..Len(analysers) -> AnalyseResults] :
        /\ \A i \in 1..Len(analysers) : rs[i] \in Analyse(analysers[i], sol, fs)
        /\ LET r == AnalysesExecute(analysers, rs, fs, sol)
           IN  /\ fs' = r.fs
               /\ sol' = r.sol
               /\ Returned(r.ret)
               /\ deltas' = Append(deltas, r.sol.score - sol.score)
    /\ log' = Logged
    /\ UNCHANGED <<cfgvars, fnvars, cmds, modules, cur, m, result, ret, seen, finals, testvars>>

\* --------------------------------------------------------------- the scripts
\* A line of a script's log: the number its prefix up to the first colon
\* parses as, if it parses as one.
LogLine(parses, n) == [parses |-> parses, n |-> n]

\* The log files a script can leave; no file reads as the empty one.
LogFiles ==
    { <<>>,
      << LogLine(FALSE, 20), LogLine(TRUE, -5), LogLine(TRUE, 15) >> }

SumLogFirstLine(lines) ==
    IF lines = <<>> \/ ~Head(lines).parses THEN 0 ELSE Head(lines).n

RECURSIVE SumLog(_)
SumLog(lines) ==
    IF lines = <<>> THEN 0
    ELSE (IF Head(lines).parses THEN Head(lines).n ELSE 0) + SumLog(Tail(lines))

\* ScriptExec::execute.  found: the script path resolves (canonicalize);
\* run: how running the script ends; lines: the log file it leaves.
ScriptExecute(f, s, found, run, lines) ==
    CASE ~found -> StageResult(f, s, Panic)
      [] found /\ run = "exec_err" -> StageResult(f, s, ExecError)
      [] OTHER -> StageResult(f, [s EXCEPT !.score = @ + SumLog(lines)], Ok)

ScriptExec ==
    /\ Calling("ScriptExec")
    /\ \E found \in BOOLEAN, run \in CommandResults, lines \in LogFiles :
        LET r == ScriptExecute(fs, sol, found, run, lines)
        IN  /\ fs' = r.fs
            /\ sol' = r.sol
            /\ Returned(r.ret)
            /\ deltas' = Append(deltas, r.sol.score - sol.score)
    /\ log' = Logged
    /\ UNCHANGED <<cfgvars, fnvars, cmds, modules, cur, m, result, ret, seen, finals, testvars>>

\* ------------------------------------------------------------ the test stage
\* The stage's own return to run, with result r (a `?` or the final Ok).
TestReturn(r) ==
    /\ tpc' = "returned"
    /\ mret' = r
    /\ pc' = "ret"
    /\ TestLocalsDropped

ProgExistsAlways(f) == TRUE

\* TestExec::execute, lines 168-171: are the tests run at all.
ProgExists(f) == f.bin # "absent"

\* TestExec::execute is called.
TestExecEnter ==
    /\ Calling("TestExec")
    /\ log' = Logged
    /\ IF ProgExists(fs)
       THEN /\ pc' = "test"
            /\ tpc' = "head"
            /\ mret' = mret
            /\ deltas' = deltas
            /\ UNCHANGED <<test, ci, cases_passed, child, outcomes, trace, spawns>>
       ELSE /\ TestReturn(Ok)
            /\ deltas' = Append(deltas, 0)
    /\ start_score' = sol.score
    /\ UNCHANGED <<cfgvars, fnvars, cmds, fs, sol, modules, cur, m, result, ret, seen, finals>>
    /\ UNCHANGED <<ti, awards, last_delta, due, unspawned>>

\* Line 173-177: the for loop takes test t from the list.
NextTest(t) ==
    /\ pc = "test"
    /\ tpc = "head"
    /\ test' = t
    /\ ti' = ti + 1
    /\ cases_passed' = 0
    /\ ci' = 0
    /\ outcomes' = <<>>
    /\ spawns' = <<>>
    /\ tpc' = "case"
    /\ unspawned' = unspawned + Len(t.test_cases)
    /\ UNCHANGED <<cfgvars, fnvars, runvars, child, trace, awards, last_delta, due,
                   start_score>>

\* Line 230: the list is exhausted.
TestsDone ==
    /\ pc = "test"
    /\ tpc = "head"
    /\ TestReturn(Ok)
    /\ deltas' = Append(deltas, sol.score - start_score)
    /\ UNCHANGED <<cfgvars, fnvars, cmds, fs, sol, modules, cur, m, result, ret, log, seen, finals>>
    /\ UNCHANGED <<ti, awards, last_delta, due, unspawned, start_score>>

\* The loop of line 173 over the configured list of the run.
TestLoopTake == ti < Len(tests) /\ NextTest(tests[ti + 1])
TestLoopEnd == ti = Len(tests) /\ TestsDone

\* The same loop over a list that is drawn one test at a time as the loop
\* takes it; the loop reads every element once and never looks back, so this
\* is every list of at most MaxTests tests of TestSet.
StreamTake == ti < MaxTests /\ \E t \in TestSet : NextTest(t)
StreamEnd == TestsDone

CurCase == test.test_cases[ci]

TestFailsIgnored(e) ==
    /\ TestReturn(Ok)
    /\ deltas' = Append(deltas, sol.score - start_score)
    /\ UNCHANGED <<cfgvars, fnvars, cmds, fs, sol, modules, cur, m, result, ret, log, seen, finals>>
    /\ UNCHANGED <<ti, awards, last_delta, due, unspawned, start_score>>

TestFailsRollsBack(e) ==
    /\ TestReturn(e)
    /\ sol' = [sol EXCEPT !.score = start_score]
    /\ deltas' = Append(deltas, 0)
    /\ UNCHANGED <<cfgvars, fnvars, cmds, fs, modules, cur, m, result, ret, log, seen, finals>>
    /\ UNCHANGED <<ti, awards, last_delta, due, unspawned, start_score>>

\* A failed step of the stage: the `?` returns the error.
TestFails(e) ==
    /\ TestReturn(e)
    /\ deltas' = Append(deltas, sol.score - start_score)
    /\ UNCHANGED <<cfgvars, fnvars, cmds, fs, sol, modules, cur, m, result, ret, log, seen, finals>>
    /\ UNCHANGED <<ti, awards, last_delta, due, unspawned, start_score>>

\* A payload the pipe does not hold at once: only then does it matter whether
\* the child reads its standard input.
MayBlock(stdin) == stdin.some /\ Len(stdin.val) > PipeCapacity

\* Lines 178-185: the next case is taken and its process unspawned.  hangs: the
\* process never exits by itself; reads: it reads its standard input (drawn
\* only where the write of line 195 depends on it).
Spawn ==
    /\ pc = "test"
    /\ tpc = "case"
    /\ ci < Len(test.test_cases)
    /\ \/ /\ \E hangs \in BOOLEAN,
                reads \in (IF MayBlock(test.test_cases[ci + 1].stdin)
                           THEN BOOLEAN ELSE {FALSE}) :
                child' = [status |-> "running", hangs |-> hangs, reads |-> reads,
                          timedout |-> FALSE, reaped |-> FALSE]
          /\ ci' = ci + 1
          /\ tpc' = IF test.test_cases[ci + 1].stdin.some THEN "write" ELSE "wait"
          /\ trace' = <<"Spawn">>
          /\ spawns' = Append(spawns, ci + 1)
          /\ UNCHANGED <<cfgvars, fnvars, runvars, ti, test, cases_passed, outcomes, awards,
                         last_delta, due, start_score>>
          /\ unspawned' = unspawned - 1
       \/ /\ TestFails(SolutionExecErr)

\* Whether write_all of line 195 returns: the child takes the payload, or the
\* payload fits in the pipe, or the child exits and the write fails (an error
\* line 189 drops).  Otherwise the write waits for ever.
WriteReturns(c, payload) ==
    \/ c.reads
    \/ Len(payload) <= PipeCapacity
    \/ ~c.hangs

\* Lines 187-196.
WriteStdin ==
    /\ pc = "test"
    /\ tpc = "write"
    /\ WriteReturns(child, CurCase.stdin.val)
    /\ child' = IF ~child.reads /\ Len(CurCase.stdin.val) > PipeCapacity
                THEN [child EXCEPT !.status = "exited"]
                ELSE child
    /\ tpc' = "wait"
    /\ trace' = Append(trace, "WriteStdin")
    /\ UNCHANGED <<cfgvars, fnvars, runvars, ti, test, ci, cases_passed, outcomes, spawns,
                   awards, last_delta, due, unspawned, start_score>>

WaitThenKill ==
    /\ pc = "test"
    /\ tpc = "wait"
    /\ \/ /\ child' = IF child.hangs
                      THEN [child EXCEPT !.timedout = TRUE]
                      ELSE [child EXCEPT !.status = "exited"]
          /\ tpc' = "timeout"
          /\ trace' = Append(trace, "Wait")
          /\ UNCHANGED <<cfgvars, fnvars, runvars, ti, test, ci, cases_passed, outcomes,
                         spawns, awards, last_delta, due, unspawned, start_score>>
       \/ /\ TestFails(SolutionExecErr)

\* Lines 198-200: wait_timeout returns the exit status of a child that exited
\* in time, None for one still running when the timeout expires, or fails.
Wait ==
    /\ pc = "test"
    /\ tpc = "wait"
    /\ \/ /\ ~child.hangs
          /\ child' = [child EXCEPT !.status = "exited", !.reaped = TRUE]
          /\ tpc' = "match"
          /\ trace' = Append(trace, "Wait")
          /\ UNCHANGED <<cfgvars, fnvars, runvars, ti, test, ci, cases_passed, outcomes,
                         spawns, awards, last_delta, due, unspawned, start_score>>
       \/ /\ child.status = "running"
          /\ child' = [child EXCEPT !.timedout = TRUE]
          /\ tpc' = "timeout"
          /\ trace' = Append(trace, "Wait")
          /\ UNCHANGED <<cfgvars, fnvars, runvars, ti, test, ci, cases_passed, outcomes,
                         spawns, awards, last_delta, due, unspawned, start_score>>
       \/ /\ TestFails(SolutionExecErr)

\* The child exits by itself after the timeout expired and before the kill.
ChildExitsLate ==
    /\ pc = "test"
    /\ tpc = "timeout"
    /\ child.status = "running"
    /\ ~child.hangs
    /\ child' = [child EXCEPT !.status = "exited"]
    /\ UNCHANGED <<cfgvars, fnvars, runvars, ti, test, ci, cases_passed, tpc, outcomes, trace,
                   spawns, awards, last_delta, due, unspawned, start_score>>

KillWithoutReap ==
    /\ pc = "test"
    /\ tpc = "timeout"
    /\ child' = IF child.status = "running"
                THEN [child EXCEPT !.status = "killed"]
                ELSE child
    /\ tpc' = "match"
    /\ trace' = Append(trace, "Kill")
    /\ UNCHANGED <<cfgvars, fnvars, runvars, ti, test, ci, cases_passed, outcomes,
                   spawns, awards, last_delta, due, unspawned, start_score>>

\* Line 202.
Kill ==
    /\ pc = "test"
    /\ tpc = "timeout"
    /\ \/ /\ child' = IF child.status = "running"
                      THEN [child EXCEPT !.status = "killed"]
                      ELSE child
          /\ tpc' = "killed"
          /\ trace' = Append(trace, "Kill")
          /\ UNCHANGED <<cfgvars, fnvars, runvars, ti, test, ci, cases_passed, outcomes,
                         spawns, awards, last_delta, due, unspawned, start_score>>
       \/ /\ TestFails(SolutionExecErr)

\* Line 203.
Reap ==
    /\ pc = "test"
    /\ tpc = "killed"
    /\ \/ /\ child' = [child EXCEPT !.reaped = TRUE]
          /\ tpc' = "match"
          /\ trace' = Append(trace, "Reap")
          /\ UNCHANGED <<cfgvars, fnvars, runvars, ti, test, ci, cases_passed, outcomes,
                         spawns, awards, last_delta, due, unspawned, start_score>>
       \/ /\ TestFails(SolutionExecErr)

CasePassesOnStdout(c, case, out, err) ==
    match_output(out, case.stdout, case.case_insensitive)

\* Lines 207-215: the condition under which the case counts as passed; out and
\* err are what the child c left in its stdout and stderr pipes.
CasePasses(c, case, out, err) ==
    /\ match_output(out, case.stdout, case.case_insensitive)
    /\ match_output(err, case.stderr, case.case_insensitive)

\* Lines 207-217.
Match ==
    /\ pc = "test"
    /\ tpc = "match"
    /\ \E out \in Streams, err \in Streams :
        LET passed == CasePasses(child, CurCase, out, err)
        IN  /\ cases_passed' = IF passed THEN cases_passed + 1 ELSE cases_passed
            /\ outcomes' = Append(outcomes, passed)
    /\ tpc' = "case"
    /\ trace' = Append(trace, "Match")
    /\ UNCHANGED <<cfgvars, fnvars, runvars, ti, test, ci, child, spawns, awards, last_delta,
                   due, unspawned, start_score>>

\* What the Data Model asks of a test: ALL, every case passed; ANY, at least
\* one did.  outs is the pass/fail of the cases that were run.
Fulfilled(t, outs) ==
    /\ Len(outs) = Len(t.test_cases)
    /\ IF t.requirement = "ALL"
       THEN \A i \in 1..Len(outs) : outs[i]
       ELSE \E i \in 1..Len(outs) : outs[i]

TestPassedAllAsAny(requirement, passed, total) == passed >= 1

TestPassedSomeCase(requirement, passed, total) ==
    passed >= 1 /\ (requirement = "ALL" => passed = total)

\* Lines 220-223.
TestPassed(requirement, passed, total) ==
    IF requirement = "ALL" THEN passed = total ELSE passed >= 1

TestScorePerCase(t, passed) == t.score * passed

\* Line 224.
TestScore(t, passed) ==
    IF TestPassed(t.requirement, passed, Len(t.test_cases)) THEN t.score ELSE 0

AwardWhenDecided ==
    /\ pc = "test"
    /\ tpc = "case"
    /\ \/ ci = Len(test.test_cases)
       \/ test.requirement = "ALL" /\ cases_passed < ci
       \/ test.requirement = "ANY" /\ cases_passed >= 1
    /\ sol' = [sol EXCEPT !.score = @ + TestScore(test, cases_passed)]
    /\ last_delta' = TestScore(test, cases_passed)
    /\ awards' = awards + 1
    /\ due' = due + (IF Fulfilled(test, outcomes) THEN test.score ELSE 0)
    /\ tpc' = "head"
    /\ UNCHANGED <<cfgvars, fnvars, cmds, deltas, fs, modules, cur, m, pc, mret, result, ret, log, seen, finals>>
    /\ UNCHANGED <<ti, test, ci, cases_passed, child, outcomes, trace, spawns,
                   start_score, unspawned>>

\* Lines 219-225: the cases of the test are done, its score is awarded or not.
Award ==
    /\ pc = "test"
    /\ tpc = "case"
    /\ ci = Len(test.test_cases)
    /\ sol' = [sol EXCEPT !.score = @ + TestScore(test, cases_passed)]
    /\ last_delta' = TestScore(test, cases_passed)
    /\ awards' = awards + 1
    /\ due' = due + (IF Fulfilled(test, outcomes) THEN test.score ELSE 0)
    /\ tpc' = "head"
    /\ UNCHANGED <<cfgvars, fnvars, cmds, deltas, fs, modules, cur, m, pc, mret, result, ret, log, seen, finals>>
    /\ UNCHANGED <<ti, test, ci, cases_passed, child, outcomes, trace, spawns,
                   start_score, unspawned>>

\* ------------------------------------------------------- the specifications
TestStep ==
    \/ Spawn
    \/ WriteStdin
    \/ Wait
    \/ ChildExitsLate
    \/ Kill
    \/ Reap
    \/ Match
    \/ Award

Next ==
    \/ Start
    \/ NextSolution
    \/ ModuleReturned
    \/ Record
    \/ Return
    \/ Compiler
    \/ Parser
    \/ TestExecEnter
    \/ TestLoopTake
    \/ TestLoopEnd
    \/ TestStep
    \/ AnalysesExec
    \/ ScriptExec

Spec == Init /\ [][Next]_vars

\* The solution when the test stage is entered: the compiler and the parser
\* have run.
InitTest ==
    /\ tests = <<>>
    /\ analysers = <<>>
    /\ scripts = 0
    /\ nsol = 1
    /\ \E cc \in {"fail", "ok"}, ld \in {"fail", "ok"}, we \in {"fail", "ok"} :
        LET r == CompilerExecute(NoFs, NewSolution, cc, ld, we)
        IN  /\ fs = [r.fs EXCEPT !.src = TRUE]
            /\ sol = r.sol
            /\ cmds = CommandsRun(cc, ld, we)
            /\ deltas = <<r.sol.score, 0>>
    /\ modules = BuildModules(0)
    /\ cur = 1
    /\ m = 3
    /\ pc = "call"
    /\ mret = Ok
    /\ result = <<>>
    /\ ret = NoRet
    /\ log = << [sol |-> 1, mod |-> Module("Compiler", 0)],
                [sol |-> 1, mod |-> Module("Parser", 0)] >>
    /\ seen = <<TRUE>>
    /\ finals = <<>>
    /\ TestIdle
    /\ FnIdle

NextTestStage ==
    \/ TestExecEnter
    \/ StreamTake
    \/ StreamEnd
    \/ TestStep

SpecTest == InitTest /\ [][NextTestStage]_vars

\* ------------------------------------------------ one pass, on its own
\* One pass of the modules over one solution, in whose directory any
\* artifacts can be; arg keeps the directory as it was found.  No tests, no
\* analysers and no scripts are configured.
InitBuild ==
    /\ tests = <<>>
    /\ analysers = <<>>
    /\ scripts = 0
    /\ nsol = 1
    /\ fs \in {f \in FsStates : SourceFound(f)}
    /\ sol = NewSolution
    /\ modules = BuildModules(0)
    /\ cur = 1
    /\ m = 1
    /\ pc = "call"
    /\ mret = "none"
    /\ result = <<>>
    /\ ret = NoRet
    /\ log = <<>>
    /\ seen = <<TRUE>>
    /\ finals = <<>>
    /\ cmds = NoCmds
    /\ deltas = <<>>
    /\ TestIdle
    /\ arg = fs
    /\ res = NoRes

NextBuild ==
    \/ Compiler
    \/ Parser
    \/ TestExecEnter
    \/ TestLoopEnd
    \/ AnalysesExec
    \/ ModuleReturned
    \/ Record
    \/ Return

SpecBuild == InitBuild /\ [][NextBuild]_vars

\* ------------------------------------------------- matching, on its own
\* The cases and the streams the matching of lines 207-215 is applied to.
MatchCases ==
    CaseSet \cup
    { TestCase(None, Some(<<"H", "i">>), None, FALSE),
      TestCase(None, Some(<<"h", "i">>), None, FALSE),
      TestCase(None, Some(<<"H", "i", " ">>), None, TRUE),
      TestCase(None, Some(<<>>), None, FALSE),
      TestCase(None, None, Some(<<"*">>), FALSE),
      TestCase(None, Some(<<"*">>), Some(<<"a", " ">>), FALSE),
      TestCase(None, Some(<<"*">>), None, TRUE) }

MatchStreams == Streams \cup { Text(<<"H", "I">>), Text(<<" ", "H", "i">>) }

InitMatch ==
    /\ tests = <<>>
    /\ analysers = <<>>
    /\ scripts = 0
    /\ nsol = 0
    /\ fs = NoFs
    /\ sol = NewSolution
    /\ modules = <<>>
    /\ cur = 0
    /\ m = 0
    /\ pc = "start"
    /\ mret = "none"
    /\ result = <<>>
    /\ ret = NoRet
    /\ log = <<>>
    /\ seen = <<>>
    /\ finals = <<>>
    /\ cmds = NoCmds
    /\ deltas = <<>>
    /\ TestIdle
    /\ arg \in [case : MatchCases, out : MatchStreams, err : MatchStreams]
    /\ res = NoRes

\* Lines 207-215 applied to arg: the two calls of match_output and the
\* condition of the if.
ApplyMatch ==
    /\ ~res.done
    /\ res' = [done |-> TRUE,
               stdout |-> match_output(arg.out, arg.case.stdout,
                                       arg.case.case_insensitive),
               stderr |-> match_output(arg.err, arg.case.stderr,
                                       arg.case.case_insensitive),
               passed |-> CasePasses(NoChild, arg.case, arg.out, arg.err)]
    /\ UNCHANGED <<cfgvars, runvars, testvars, arg>>

NextMatch == ApplyMatch

SpecMatch == InitMatch /\ [][NextMatch]_vars

\* ------------------------------------------------- the stages, on their own
\* The stages and the analysers applied on their own to inputs kept in arg,
\* with the result in res.out: every external outcome of a stage is an input.

\* --- NoCallAnalyser::analyse (analyses.rs 44-52) on the text of the source.
\* The pattern of name f is f followed by \s*\( ; it is searched anywhere in
\* the source.  A name is put into the pattern as it is: one with an open
\* parenthesis in it leaves the pattern unbalanced and RegexSet::new fails.
NoCallMatchAt(name, source, i) ==
    /\ i + Len(name) <= Len(source)
    /\ \A k \in 1..Len(name) : source[i + k - 1] = name[k]
    /\ \E j \in (i + Len(name))..Len(source) :
        /\ source[j] = "("
        /\ \A k \in (i + Len(name))..(j - 1) : source[k] \in Whitespace

\* RegexSet::is_match: some pattern matches somewhere.
NoCallMatches(funs, source) ==
    \E n \in 1..Len(funs) : \E i \in 1..Len(source) :
        NoCallMatchAt(funs[n], source, i)

NoCallAnalyse(funs, source) ==
    IF \E n \in 1..Len(funs) : \E k \in 1..Len(funs[n]) : funs[n][k] = "("
    THEN InternalError
    ELSE IF NoCallMatches(funs, source) THEN "true" ELSE "false"

\* The characters of the sources and the length of the sources that are
\* enumerated in full.
MaxSource == 4
SourceChars == {"f", "o", " ", "("}

\* foo(  foobar(  xfoo(  foo (  and a source that names foo without calling it.
SourceExamples ==
    { <<"f", "o", "o", "(">>,
      <<"f", "o", "o", "b", "a", "r", "(">>,
      <<"x", "f", "o", "o", "(">>,
      <<"f", "o", "o", " ", "(">>,
      <<"(", "f", "o", "o", ")">> }

FunLists ==
    { <<>>,
      << <<"f", "o", "o">> >>,
      << <<"o", "f">>, <<"f", "o">> >>,
      << <<"f", "(">> >> }

NoCallInputs ==
    [fn : {"NoCall"}, funs : FunLists,
     source : SeqsUpTo(SourceChars, MaxSource) \cup SourceExamples]

\* --- NoGlobalsAnalyser::analyse (analyses.rs 93-110).
\* A symbol of an object file: the section it is in, its binding, and where
\* the program declares it (at file scope, or inside a function as a static
\* local).  A static local always has local binding.
Sym(section, binding, scope, name) ==
    [section |-> section, binding |-> binding, scope |-> scope, name |-> name]

\* The letter nm prints for a symbol: upper case for a global symbol, lower
\* case for a local one.
NmType(sym) ==
    CASE sym.section = "bss" -> IF sym.binding = "global" THEN "B" ELSE "b"
      [] sym.section = "data" -> IF sym.binding = "global" THEN "D" ELSE "d"
      [] sym.section = "common" -> "C"
      [] sym.section = "rodata" -> IF sym.binding = "global" THEN "R" ELSE "r"
      [] OTHER -> IF sym.binding = "global" THEN "T" ELSE "t"

\* What nm prints: one line per symbol, its value, its type and its name.
RECURSIVE NmOutput(_)
NmOutput(symbols) ==
    IF symbols = <<>> THEN <<>>
    ELSE <<"0", " ", NmType(Head(symbols)), " ">> \o Head(symbols).name
         \o <<"\n">> \o NmOutput(Tail(symbols))

NoGlobalsMatchAnyType(text) ==
    \E i \in 1..(Len(text) - 2) : text[i] = " " /\ text[i + 2] = " "

\* Line 106-109: the pattern \d*\s* [BCD] (.*) is searched anywhere in the
\* output; \d*, \s* and (.*) can all match nothing.
NoGlobalsMatch(text) ==
    \E i \in 1..(Len(text) - 2) :
        text[i] = " " /\ text[i + 1] \in {"B", "C", "D"} /\ text[i + 2] = " "

\* nm: whether it can be run ("exec_err"), and what it prints; obj is the
\* symbol table of the object file, or None when there is no object file (nm
\* then prints nothing on its standard output).
NmResults == {"exec_err", "not_utf8", "ok"}

NoGlobalsAnalyse(nm, obj) ==
    CASE nm = "exec_err" -> ExecError
      [] nm = "not_utf8" -> InternalError
      [] OTHER ->
            IF NoGlobalsMatch(IF obj.some THEN NmOutput(obj.val) ELSE <<>>)
            THEN "true" ELSE "false"

MaxSymbols == 2

\* main, and the variables x of:  int x;  (bss, or common with -fcommon),
\* int x = 1;  static int x;  at file scope,  static int x = 1;  inside a
\* function,  const int B = 1;  and a function B.
ObjSymbols ==
    { Sym("text", "global", "file", <<"m">>),
      Sym("bss", "global", "file", <<"x">>),
      Sym("common", "global", "file", <<"x">>),
      Sym("data", "global", "file", <<"x">>),
      Sym("bss", "local", "file", <<"x">>),
      Sym("data", "local", "function", <<"x">>),
      Sym("rodata", "global", "file", <<"B">>),
      Sym("text", "global", "file", <<"B">>) }

NoGlobalsInputs ==
    [fn : {"NoGlobals"}, nm : NmResults,
     obj : Option(SeqsUpTo(ObjSymbols, MaxSymbols))]

\* --- AnalysesExec::execute (modules.rs 275-284) on any list of analysers
\* and any results of their analyse.
MaxAnalysers == 2

AnalyserSet ==
    { [kind |-> "NoHeader", header |-> "stdio.h", penalty |-> -10],
      [kind |-> "NoGlobals", header |-> "", penalty |-> -20],
      [kind |-> "NoCall", header |-> "", penalty |-> -5] }

\* Scores a solution can have when a later stage starts: nothing yet, a
\* compilation with warnings, a passed test.
ScoresSoFar == {0, -WarningPenalty, 10}

AnalysesInputs ==
    UNION { [fn : {"Analyses"}, as : {as}, rs : [1..Len(as) -> AnalyseResults],
             s : {[NewSolution EXCEPT !.score = n] : n \in ScoresSoFar}] :
            as \in SeqsUpTo(AnalyserSet, MaxAnalysers) }

\* --- Parser::execute (modules.rs 89-150).
ParserInputs ==
    [fn : {"Parser"}, s : {[NewSolution EXCEPT !.score = n] : n \in ScoresSoFar},
     dos : CommandResults, open : BOOLEAN, incs : IncludeLists,
     pp : PreprocessResults]

\* --- ScriptExec::execute (modules.rs 304-323), the log file read as text.
\* Line 317: the part of the line before its first colon, the whole line
\* when it has none.
RECURSIVE Prefix(_)
Prefix(line) ==
    IF line = <<>> \/ Head(line) = ":" THEN <<>>
    ELSE <<Head(line)>> \o Prefix(Tail(line))

Digits == {"1", "5"}
DigitValue(c) == IF c = "1" THEN 1 ELSE 5

RECURSIVE Decimal(_)
Decimal(s) ==
    IF s = <<>> THEN 0 ELSE 10 * Decimal(SubSeq(s, 1, Len(s) - 1)) + DigitValue(s[Len(s)])

\* str::parse::<f64> on the characters of the model: an optional minus sign
\* and at least one digit, nothing else (no space is skipped).  The value is
\* in tenths of a point, as every score.
ParseF64(s) ==
    LET digits == IF s # <<>> /\ Head(s) = "-" THEN Tail(s) ELSE s
        valid == digits # <<>> /\ \A k \in 1..Len(digits) : digits[k] \in Digits
        sign == IF s # <<>> /\ Head(s) = "-" THEN -1 ELSE 1
    IN  IF valid THEN LogLine(TRUE, sign * 10 * Decimal(digits))
        ELSE LogLine(FALSE, 0)

\* Line 316: read_to_string(..).unwrap_or_default().lines(): a file that is
\* missing or is not UTF-8 reads as no line at all.
ReadLog(file) ==
    IF file.state = "ok"
    THEN [k \in 1..Len(file.lines) |-> ParseF64(Prefix(file.lines[k]))]
    ELSE <<>>

MaxLogLines == 2

\* 5:ok  -1:x  x5:  5  :5  15  5 :  and the empty line.
LogLineSet ==
    { <<"5", ":", "o", "k">>, <<"-", "1", ":", "x">>, <<"x", "5", ":">>,
      <<"5">>, <<":", "5">>, <<"1", "5">>, <<"5", " ", ":">>, <<>> }

LogFileStates == {"missing", "not_utf8", "ok"}

ScriptInputs ==
    { [fn |-> "Script", s |-> s, found |-> found, run |-> run, file |-> file] :
        s \in {[NewSolution EXCEPT !.score = n] : n \in ScoresSoFar},
        found \in BOOLEAN, run \in CommandResults,
        file \in [state : {"missing", "not_utf8"}, lines : {<<>>}]
                 \cup [state : {"ok"}, lines : SeqsUpTo(LogLineSet, MaxLogLines)] }

\* --- Parser::execute, lines 106-120 and 142-148, on the text of the source.
\* A text is a sequence of tokens: the word #include, single characters, and
\* "\n" between lines.
\* The end of the line position j is on: the position of the next "\n", or
\* one past the end of the text.
LineEnd(text, j) ==
    IF \E e \in j..Len(text) : text[e] = "\n"
    THEN CHOOSE e \in j..Len(text) :
            text[e] = "\n" /\ \A k \in j..(e - 1) : text[k] # "\n"
    ELSE Len(text) + 1

\* Line 109: where #include\s*<(.*)> matches when it starts at position i:
\* the position of the < and of the > that ends the match (0, 0 if it does not
\* match).  \s* runs over spaces and line ends; (.*) is greedy and stays on
\* its line, so the match ends at the last > of the line.
IncludeMatchAt(text, i) ==
    IF text[i] # "#include" THEN <<0, 0>>
    ELSE LET rest == {j \in (i + 1)..Len(text) : text[j] \notin Whitespace}
         IN  IF rest = {} THEN <<0, 0>>
             ELSE LET j == CHOOSE j \in rest : \A k \in rest : j <= k
                      closing == {k \in (j + 1)..(LineEnd(text, j) - 1) :
                                     text[k] = ">"}
                  IN  IF text[j] # "<" \/ closing = {} THEN <<0, 0>>
                      ELSE <<j, CHOOSE k \in closing : \A c \in closing : c <= k>>

\* Line 113: include[1], the text between the < and the > of a match.
IncludeName(text, j, k) == SubSeq(text, j + 1, k - 1)

\* Lines 112-114: captures_iter, the matches from position p on, leftmost
\* first and not overlapping.
RECURSIVE IncludesFrom(_, _)
IncludesFrom(text, p) ==
    LET starts == {i \in p..Len(text) : IncludeMatchAt(text, i) # <<0, 0>>}
    IN  IF starts = {} THEN <<>>
        ELSE LET i == CHOOSE i \in starts : \A k \in starts : i <= k
                 at == IncludeMatchAt(text, i)
             IN  <<IncludeName(text, at[1], at[2])>>
                 \o IncludesFrom(text, at[2] + 1)

\* str::lines: the lines of a text, without their line ends.
RECURSIVE Lines(_)
Lines(text) ==
    IF text = <<>> THEN <<>>
    ELSE LET e == LineEnd(text, 1)
         IN  <<SubSeq(text, 1, e - 1)>> \o Lines(SubSeq(text, e + 1, Len(text)))

\* Line 119: re.is_match(l) on one line.
IsIncludeLine(line) ==
    \E i \in 1..Len(line) : IncludeMatchAt(line, i) # <<0, 0>>

\* Line 147: l.starts_with('#').
IsDirectiveLine(line) == line # <<>> /\ line[1] \in {"#", "#include"}

\* Lines 117-119: the lines that are sent to the preprocessor.
RECURSIVE StripIncludes(_)
StripIncludes(lines) ==
    IF lines = <<>> THEN <<>>
    ELSE (IF IsIncludeLine(Head(lines)) THEN <<>> ELSE <<Head(lines)>>)
         \o StripIncludes(Tail(lines))

\* Lines 146-147: the lines of the preprocessor's output that are stored.
RECURSIVE DropDirectives(_)
DropDirectives(lines) ==
    IF lines = <<>> THEN <<>>
    ELSE (IF IsDirectiveLine(Head(lines)) THEN <<>> ELSE <<Head(lines)>>)
         \o DropDirectives(Tail(lines))

\* The successful path of Parser::execute on the text of the source, output
\* being what the preprocessor prints: the headers pushed to included, the
\* lines sent to the preprocessor, and the lines stored as the source.
ParseSource(text, output) ==
    [included |-> IncludesFrom(text, 1),
     sent |-> StripIncludes(Lines(text)),
     source |-> DropDirectives(Lines(output))]

MaxText == 4
TextTokens == {"#include", "<", ">", "a", " ", "\n"}

\* #include <a> a>b  ("a greater than b" in a comment after the include), and
\* a text with a definition after an include.
TextExamples ==
    { <<"#include", " ", "<", "a", ">", " ", "a", ">", "b">>,
      <<"#include", " ", "<", "a", ">", "\n", "#", "d", "\n", "a">> }

\* What gcc -E can print: line markers, text, blank lines.
PreprocessorOutputs ==
    { <<>>,
      <<"#", " ", "1", "\n", "a", "\n">>,
      <<"a", "\n", " ", "#", "\n", "#", "\n", "\n", "a">> }

SourceInputs ==
    [fn : {"Source"}, text : SeqsUpTo(TextTokens, MaxText) \cup TextExamples,
     output : PreprocessorOutputs]

\* --- Config::from_yaml (config.rs 90-118) on the timeout of test-config.
\* lib.rs line 74, in milliseconds.
DEFAULT_TEST_TIMEOUT == 5000

\* A YAML value: no value at all (Yaml::BadValue), an integer, or a value of
\* another type (a real, a string).
YamlMissing == [kind |-> "missing", n |-> 0]
YamlInt(n) == [kind |-> "int", n |-> n]
YamlOther == [kind |-> "other", n |-> 0]

FieldOk(v) == [ok |-> TRUE, val |-> v]
InvalidField == [ok |-> FALSE, val |-> None]

\* optional_field_i64, config.rs 253-260.
OptionalFieldI64(yaml) ==
    CASE yaml.kind = "missing" -> FieldOk(None)
      [] yaml.kind = "int" -> FieldOk(Some(yaml.n))
      [] OTHER -> InvalidField

OptionalFieldU64AcceptsZero(yaml) ==
    LET i == OptionalFieldI64(yaml)
    IN  IF i.ok /\ i.val.some /\ i.val.val < 0 THEN InvalidField ELSE i

\* optional_field_u64, config.rs 265-275.
OptionalFieldU64(yaml) ==
    LET i == OptionalFieldI64(yaml)
    IN  IF i.ok /\ i.val.some /\ ~(i.val.val > 0) THEN InvalidField ELSE i

\* Config::from_yaml, lines 94-95 and 112-117: the timeout of the
\* configuration, or the error from_yaml returns.  section is whether the
\* configuration has a test-config section.
ConfigTimeout(section, yaml) ==
    IF ~section THEN FieldOk(DEFAULT_TEST_TIMEOUT)
    ELSE LET t == OptionalFieldU64(yaml)
         IN  IF ~t.ok THEN InvalidField
             ELSE IF t.val.some THEN FieldOk(t.val.val)
             ELSE FieldOk(DEFAULT_TEST_TIMEOUT)

\* The integers a configuration is given: those near 0, and two timeouts in
\* milliseconds.
MaxField == 2
YamlValues ==
    {YamlMissing, YamlOther}
    \cup {YamlInt(n) : n \in (-MaxField..MaxField) \cup {DEFAULT_TEST_TIMEOUT, 2 * DEFAULT_TEST_TIMEOUT}}

TimeoutInputs == [fn : {"Timeout"}, section : BOOLEAN, yaml : YamlValues]

StageInputs ==
    ParserInputs \cup AnalysesInputs \cup NoCallInputs \cup NoGlobalsInputs
    \cup ScriptInputs \cup SourceInputs \cup TimeoutInputs

InitStage ==
    /\ tests = <<>>
    /\ analysers = <<>>
    /\ scripts = 0
    /\ nsol = 0
    /\ fs = NoFs
    /\ sol = NewSolution
    /\ modules = <<>>
    /\ cur = 0
    /\ m = 0
    /\ pc = "start"
    /\ mret = "none"
    /\ result = <<>>
    /\ ret = NoRet
    /\ log = <<>>
    /\ seen = <<>>
    /\ finals = <<>>
    /\ cmds = NoCmds
    /\ deltas = <<>>
    /\ TestIdle
    /\ arg \in StageInputs
    /\ res = NoRes

\* The function named fn is still to be applied to arg.
Applying(fn) ==
    /\ ~res.done
    /\ arg.fn = fn

ApplyParser ==
    /\ Applying("Parser")
    /\ res' = [done |-> TRUE,
               out |-> ParserExecute(NoFs, arg.s, arg.dos, arg.open, arg.incs,
                                     arg.pp)]
    /\ UNCHANGED <<cfgvars, runvars, testvars, arg>>

ApplyAnalyses ==
    /\ Applying("Analyses")
    /\ res' = [done |-> TRUE,
               out |-> AnalysesExecute(arg.as, arg.rs, NoFs, arg.s)]
    /\ UNCHANGED <<cfgvars, runvars, testvars, arg>>

ApplyNoCall ==
    /\ Applying("NoCall")
    /\ res' = [done |-> TRUE, out |-> NoCallAnalyse(arg.funs, arg.source)]
    /\ UNCHANGED <<cfgvars, runvars, testvars, arg>>

ApplyNoGlobals ==
    /\ Applying("NoGlobals")
    /\ res' = [done |-> TRUE, out |-> NoGlobalsAnalyse(arg.nm, arg.obj)]
    /\ UNCHANGED <<cfgvars, runvars, testvars, arg>>

ApplyScript ==
    /\ Applying("Script")
    /\ res' = [done |-> TRUE,
               out |-> ScriptExecute(NoFs, arg.s, arg.found, arg.run,
                                     ReadLog(arg.file))]
    /\ UNCHANGED <<cfgvars, runvars, testvars, arg>>

ApplySource ==
    /\ Applying("Source")
    /\ res' = [done |-> TRUE, out |-> ParseSource(arg.text, arg.output)]
    /\ UNCHANGED <<cfgvars, runvars, testvars, arg>>

ApplyTimeout ==
    /\ Applying("Timeout")
    /\ res' = [done |-> TRUE, out |-> ConfigTimeout(arg.section, arg.yaml)]
    /\ UNCHANGED <<cfgvars, runvars, testvars, arg>>

NextStage ==
    \/ ApplyParser
    \/ ApplyAnalyses
    \/ ApplyNoCall
    \/ ApplyNoGlobals
    \/ ApplyScript
    \/ ApplySource
    \/ ApplyTimeout

SpecStage == InitStage /\ [][NextStage]_vars

\* ---------------------------------------------------------------- the claims
\* C1: when a module's execute has returned an error, run returns that very
\* error and no result map: nothing recorded for earlier solutions reaches
\* the caller.
C1_ErrorReturnedWithoutMap ==
    (mret \in Errors /\ pc # "ret") =>
        /\ pc = "done"
        /\ ret = [kind |-> "Err", err |-> mret, map |-> <<>>]

\* An error of the second solution's modules, after the first was recorded.
C1_Witness ==
    /\ pc = "done"
    /\ mret \in Errors
    /\ ret.kind = "Err"
    /\ DOMAIN result = {1}
    /\ cur = 2

\* C2: once a module has returned an error, no module is executed any more
\* (neither on that solution nor on a later one) and nothing is inserted
\* into the result map.
C2_NothingAfterError ==
    [][(mret \in Errors) => (log' = log /\ result' = result)]_vars

\* An ExecError or InternalError of a module that is not the last one, on a
\* solution that is not the last one, and run has returned.
C2_Witness ==
    /\ pc = "done"
    /\ mret \in {ExecError, InternalError}
    /\ cur < nsol
    /\ m < Len(modules)

\* C3: a solution without its source file has no module executed on it and
\* no entry in the result map, the loop has gone on to the next solution,
\* and skipping raises no error: a run that found no source file at all
\* returns no error.
C3_MissingSourceSkipped ==
    /\ \A i \in 1..Len(seen) :
        ~seen[i] =>
            /\ \A k \in 1..Len(log) : log[k].sol # i
            /\ i \notin DOMAIN result
            /\ cur > i
    /\ (\A i \in 1..Len(seen) : ~seen[i]) => (ret.kind # "Err" /\ pc # "panicked")

\* The first solution has no source file and the second one is evaluated.
C3_Witness ==
    /\ Len(seen) = 2
    /\ ~seen[1]
    /\ seen[2]
    /\ pc = "done"
    /\ ret.kind = "Ok"
    /\ DOMAIN ret.map = {2}

\* C4: the map run returns without error has one entry for each solution
\* whose source file exists and for no other, under the solution's name, and
\* the entry is the score the solution had when its last module returned.
C4_ResultMapComplete ==
    ret.kind = "Ok" =>
        /\ Len(seen) = nsol
        /\ DOMAIN ret.map = {i \in 1..nsol : seen[i]}
        /\ \A i \in DOMAIN ret.map :
            /\ i \in DOMAIN finals
            /\ ret.map[i] = finals[i]

\* Two solutions with different scores, both returned.
C4_Witness ==
    /\ ret.kind = "Ok"
    /\ DOMAIN ret.map = {1, 2}
    /\ ret.map[1] # ret.map[2]
    /\ ret.map[2] # 0

\* The place of a module in the order the claim gives (0: it has none).
C5_Rank(mod) ==
    IF mod = Module("Compiler", 0) THEN 1
    ELSE IF mod = Module("Parser", 0) THEN 2
    ELSE IF mod = Module("TestExec", 0) THEN 3
    ELSE IF mod = Module("AnalysesExec", 0) THEN 4
    ELSE IF mod.kind = "ScriptExec" /\ mod.script \in 1..scripts THEN 4 + mod.script
    ELSE 0

C6_AwardIffRequirement ==
    (pc = "test" /\ tpc = "head" /\ ti > 0) =>
        last_delta = IF Fulfilled(test, outcomes) THEN test.score ELSE 0

\* An ALL test lost by one of its two cases.
C6_Witness ==
    /\ pc = "test"
    /\ tpc = "head"
    /\ test.requirement = "ALL"
    /\ outcomes = <<TRUE, FALSE>>
    /\ last_delta = 0

\* C7: while the test stage runs and when it has returned Ok, the score is
\* the score at the start of the stage plus the scores of the fulfilled
\* tests; the stage has changed the score once for each test that is done,
\* by 0 or by the test's full score.
C7_AwardedOncePerTest ==
    (pc = "test" \/ (tpc = "returned" /\ mret = Ok)) =>
        /\ sol.score = start_score + due
        /\ awards = IF pc = "test" /\ tpc # "head" THEN ti - 1 ELSE ti
        /\ (pc = "test" /\ tpc = "head" /\ ti > 0) => last_delta \in {0, test.score}

\* A stage of two tests has returned Ok and exactly one of them was awarded.
C7_Witness ==
    /\ tpc = "returned"
    /\ mret = Ok
    /\ ti = 2
    /\ awards = 2
    /\ due = 25
    /\ sol.score = start_score + 25

\* C8: a case whose process was still running when the timeout expired has
\* been killed or has exited, has been reaped, and counts as not passed.
C8_TimedOutCaseFails ==
    (pc = "test" /\ tpc = "case" /\ child.timedout) =>
        /\ child.status \in {"killed", "exited"}
        /\ child.reaped
        /\ ~outcomes[Len(outcomes)]

\* C9: the test stage never stops in the middle: as long as it has not
\* returned, it has a next step.
C9_StageNeverStuck == pc = "test" => ENABLED NextTestStage

\* C10: a case with neither a stdout nor a stderr expectation has passed
\* when it is done, whatever its process wrote.
C10_NoExpectationPasses ==
    (pc = "test" /\ tpc = "case" /\ ci > 0 /\ Len(outcomes) = ci
        /\ ~CurCase.stdout.some /\ ~CurCase.stderr.some) =>
        outcomes[ci]

\* A case without expectations is done, after a case that failed.
C10_Witness ==
    /\ pc = "test"
    /\ tpc = "case"
    /\ ci = 2
    /\ Len(outcomes) = 2
    /\ ~CurCase.stdout.some
    /\ ~CurCase.stderr.some
    /\ ~outcomes[1]
    /\ outcomes[2]

\* Whether what a child left in a pipe is non-empty once whitespace is
\* trimmed from it (bytes that are not UTF-8 hold a byte that is no
\* whitespace).
C11_NonEmptyTrimmed(stream) == ~stream.utf8 \/ Trim(stream.text) # <<>>

\* C11: an expectation "*" on a stream matches if and only if the stream is
\* non-empty after trimming whitespace.
C11_WildcardIffNonEmpty ==
    res.done =>
        /\ arg.case.stdout = Some(<<"*">>) =>
            (res.stdout <=> C11_NonEmptyTrimmed(arg.out))
        /\ arg.case.stderr = Some(<<"*">>) =>
            (res.stderr <=> C11_NonEmptyTrimmed(arg.err))

\* The expectation e, not "*", and the stream hold the same text once both
\* are trimmed and, with the flag set, case-folded.
C12_SameText(stream, e, flag) ==
    /\ stream.utf8
    /\ IF flag
       THEN ToLowercase(Trim(stream.text)) = ToLowercase(Trim(e.val))
       ELSE Trim(stream.text) = Trim(e.val)

\* C12: an expectation other than "*" matches if and only if the trimmed
\* output equals the trimmed expectation, both case-folded first when the
\* case's flag is set.
C12_LiteralIffEqual ==
    res.done =>
        /\ (arg.case.stdout.some /\ Trim(arg.case.stdout.val) # <<"*">>) =>
            (res.stdout <=>
                C12_SameText(arg.out, arg.case.stdout, arg.case.case_insensitive))
        /\ (arg.case.stderr.some /\ Trim(arg.case.stderr.val) # <<"*">>) =>
            (res.stderr <=>
                C12_SameText(arg.err, arg.case.stderr, arg.case.case_insensitive))

\* C13: a case passes if and only if each expectation it declares matches its
\* own stream.
C13_BothMustMatch ==
    res.done =>
        (res.passed <=>
            /\ arg.case.stdout.some => res.stdout
            /\ arg.case.stderr.some => res.stderr)

\* Both expectations declared, stdout matches, stderr does not: the case fails.
C13_Witness ==
    /\ res.done
    /\ arg.case.stdout.some
    /\ arg.case.stderr.some
    /\ res.stdout
    /\ ~res.stderr
    /\ ~res.passed

\* C14: when the test stage has returned for a solution whose binary does not
\* exist, it has returned success, it has taken no test from the list and so
\* unspawned no process and awarded nothing, and the score is what it was when
\* the stage was called.
C14_MissingBinaryNoOp ==
    (modules # <<>> /\ pc \in {"test", "ret"} /\ modules[m].kind = "TestExec"
        /\ fs.bin = "absent") =>
        /\ pc = "ret"
        /\ mret = Ok
        /\ tpc = "returned"
        /\ ti = 0
        /\ spawns = <<>>
        /\ awards = 0
        /\ sol.score = start_score

\* Tests are configured, the solution has no binary, the stage has returned.
C14_Witness ==
    /\ pc = "ret"
    /\ modules[m].kind = "TestExec"
    /\ fs.bin = "absent"
    /\ Len(tests) > 0
    /\ tpc = "returned"
    /\ mret = Ok

\* C15: a solution whose compilation failed (no object file was written) and
\* whose last module has returned has the score 0, when no script is
\* configured: neither the tests nor the analysers have changed it.
C15_CompileFailureScoresZero ==
    (pc = "record" /\ fs.obj = "absent" /\ scripts = 0) => sol.score = 0

\* The compilation or the link of the current solution failed.
C16_BuildFailed == cmds.cc = "fail" \/ cmds.ld = "fail"

\* C16: for a solution whose compilation or link failed, the compiler stage
\* and the test stage return success; after a stage that returned success
\* the next module is called on the same solution; when the last one has
\* returned, every module has been called on the solution, its score is
\* inserted in the result map and the loop goes on with the next solution.
C16_BuildFailureIsNoError ==
    [][C16_BuildFailed =>
        /\ (pc = "ret" /\ modules[m].kind \in {"Compiler", "TestExec"}) => mret = Ok
        /\ (pc = "ret" /\ mret = Ok /\ m < Len(modules)) =>
            (pc' = "call" /\ m' = m + 1 /\ cur' = cur)
        /\ (pc = "ret" /\ mret = Ok /\ m = Len(modules)) => pc' = "record"
        /\ pc = "record" =>
            /\ Len(SelectSeq(log, LAMBDA x : x.sol = cur)) = Len(modules)
            /\ result' = (cur :> sol.score) @@ result
            /\ cur' = cur + 1
            /\ pc' = "loop"]_vars

\* The first of two solutions failed to compile, every module including a
\* script has been called on it and it is about to be recorded.
C16_Witness ==
    /\ pc = "record"
    /\ cmds.cc = "fail"
    /\ cur = 1
    /\ nsol = 2
    /\ scripts >= 1
    /\ Len(tests) > 0
    /\ Len(log) = Len(modules)

\* Compiler::execute has just ended on the current solution, by returning or
\* by a panic.
CompilerEnded ==
    /\ modules # <<>>
    /\ pc \in {"ret", "panicked"}
    /\ modules[m].kind = "Compiler"

C18_WarningPenalty ==
    CompilerEnded =>
        /\ sol.score - NewSolution.score =
            IF cmds.cc = "ok" /\ cmds.ld = "ok" /\ cmds.we = "fail"
            THEN 0 - WarningPenalty
            ELSE 0
        /\ sol.score # NewSolution.score =>
            (fs.obj = "built" /\ fs.bin = "built")

\* The stage returned after a compilation with warnings.
C18_Witness ==
    /\ CompilerEnded
    /\ cmds.we = "fail"
    /\ sol.score = 0 - WarningPenalty
    /\ mret = Ok
    /\ fs.bin = "built"

\* C19: when one of the commands of the compiler stage could not be run, the
\* stage has returned ExecError to its caller; when all that were run could
\* be run, it has not returned an error.
C19_ExecErrorReported ==
    CompilerEnded =>
        IF "exec_err" \in {cmds.cc, cmds.ld, cmds.we}
        THEN pc = "ret" /\ mret = ExecError
        ELSE pc = "ret" /\ mret = Ok

C21_UnopenedSourceIsNoOp ==
    (res.done /\ arg.fn = "Parser" /\ ~arg.open) =>
        /\ res.out.ret = Ok
        /\ res.out.sol = arg.s

\* C21 (amended): if the source file cannot be opened and dos2unix could be
\* run (whatever its exit status), the parser stage returns success and leaves
\* the solution as it was, however the preprocessor would have ended; when
\* dos2unix cannot be run the stage returns ExecError before the file is
\* opened.
C21_UnopenedSourceAfterDos2unix ==
    (res.done /\ arg.fn = "Parser" /\ ~arg.open) =>
        IF arg.dos = "exec_err"
        THEN res.out.ret = ExecError /\ res.out.sol = arg.s
        ELSE res.out.ret = Ok /\ res.out.sol = arg.s

C21_Witness ==
    /\ res.done
    /\ arg.fn = "Parser"
    /\ ~arg.open
    /\ arg.dos = "fail"
    /\ arg.pp = "exec_err"
    /\ arg.incs # <<>>
    /\ res.out.ret = Ok
    /\ res.out.sol.included = <<>>

\* The penalties of the analysers before position n that returned true.
RECURSIVE C22_Penalties(_, _, _)
C22_Penalties(as, rs, n) ==
    IF n = 0 THEN 0
    ELSE C22_Penalties(as, rs, n - 1)
         + (IF rs[n] = "true" THEN as[n].penalty ELSE 0)

\* The first analyser whose analyse returns an error, 0 if there is none.
C22_FirstError(rs) ==
    IF \E i \in 1..Len(rs) : rs[i] \in Errors
    THEN CHOOSE i \in 1..Len(rs) :
            rs[i] \in Errors /\ \A k \in 1..(i - 1) : rs[k] \notin Errors
    ELSE 0

\* C22: the analysis stage adds an analyser's penalty to the score iff its
\* analyse returns true: when no analyser fails the stage returns success and
\* has changed the score by the sum of the penalties of exactly the analysers
\* that returned true; when one fails the stage returns that error, having
\* added the penalties of the earlier analysers that returned true.
C22_PenaltyIffTrue ==
    (res.done /\ arg.fn = "Analyses") =>
        LET first == C22_FirstError(arg.rs)
            run == IF first = 0 THEN Len(arg.as) ELSE first - 1
        IN  /\ res.out.ret = (IF first = 0 THEN Ok ELSE arg.rs[first])
            /\ res.out.sol.score
                = arg.s.score + C22_Penalties(arg.as, arg.rs, run)
            /\ res.out.sol.included = arg.s.included
            /\ res.out.sol.source = arg.s.source

C22_Witness ==
    /\ res.done
    /\ arg.fn = "Analyses"
    /\ Len(arg.as) = 2
    /\ arg.rs = <<"false", "true">>
    /\ arg.as[1].penalty # arg.as[2].penalty
    /\ res.out.ret = Ok
    /\ res.out.sol.score = arg.s.score + arg.as[2].penalty

\* A character an identifier can be made of.
C23_IdentChar(c) == c \notin Whitespace \cup {"(", ")"}

\* name stands at position i of the source as a whole identifier, followed by
\* optional whitespace and an open parenthesis.
C23_CallOf(name, source, i) ==
    /\ NoCallMatchAt(name, source, i)
    /\ i = 1 \/ ~C23_IdentChar(source[i - 1])

\* C23: the NoCall analyser returns true only when the source contains a
\* disallowed name as a whole identifier followed by optional whitespace and
\* an open parenthesis (so foo( matches foo, and neither foobar( nor xfoo(
\* does).
C23_WordBoundaryCorrect ==
    (res.done /\ arg.fn = "NoCall" /\ res.out = "true") =>
        \E n \in 1..Len(arg.funs) : \E i \in 1..Len(arg.source) :
            C23_CallOf(arg.funs[n], arg.source, i)

\* The sections of writable or initialised data: .bss, .data and the common
\* block.
C24_DataSections == {"bss", "data", "common"}

\* The analyser's answer when global says whether the object file has a
\* symbol that counts as a global variable.
C24_Answers(global) ==
    (res.done /\ arg.fn = "NoGlobals") =>
        CASE arg.nm = "exec_err" -> res.out = ExecError
          [] arg.nm = "not_utf8" -> res.out = InternalError
          [] OTHER -> res.out = (IF global THEN "true" ELSE "false")

RECURSIVE C25_Numbers(_, _)
C25_Numbers(lines, n) ==
    IF n = 0 THEN 0
    ELSE LET number == ParseF64(Prefix(lines[n]))
         IN  C25_Numbers(lines, n - 1) + (IF number.parses THEN number.n ELSE 0)

C26_ScriptFailureIsExecError ==
    (res.done /\ arg.fn = "Script") =>
        /\ (~arg.found \/ arg.run = "exec_err") => res.out.ret = ExecError
        /\ (arg.found /\ arg.run # "exec_err" /\ arg.file.state # "ok") =>
                res.out.ret = Ok /\ res.out.sol = arg.s

\* C27: no state is shared between solutions.  Every stage is a function of
\* the solution record, of the solution's own directory, of the module's
\* configuration and of the external outcomes, so a solution's final score is
\* the same alone or after other solutions if its pipeline starts in the same
\* state: whenever the first module is about to run on a solution, the record
\* is as Solution::new builds it, the module list is the one built from the
\* configuration, and nothing is left of the test stage of an earlier solution.
C27_FreshStart ==
    /\ pc \in {"loop", "call", "test", "ret", "record"} =>
            modules = BuildModules(scripts)
    /\ (pc = "call" /\ m = 1) =>
            /\ sol.score = 0
            /\ sol.included = <<>>
            /\ sol.source = ""
            /\ tpc = "idle"
            /\ ti = 0
            /\ test = NoTest
            /\ ci = 0
            /\ cases_passed = 0
            /\ child = NoChild

\* The second solution starts with score 0 after the first one was recorded
\* with another score.
C27_Witness ==
    /\ pc = "call"
    /\ m = 1
    /\ cur = 2
    /\ 1 \in DOMAIN result
    /\ result[1] # 0
    /\ sol.score = 0

RECURSIVE C28_Sum(_)
C28_Sum(changes) ==
    IF changes = <<>> THEN 0 ELSE Head(changes) + C28_Sum(Tail(changes))

\* C28: the score of a solution is 0 when it is created and is never reset:
\* between two stages it is the sum of the score changes of the stages run so
\* far on the solution (one per stage), the test stage starts from that sum,
\* and the score recorded for the solution is the sum over all the stages.
C28_ScoreIsSumOfChanges ==
    /\ pc = "call" => (Len(deltas) = m - 1 /\ sol.score = C28_Sum(deltas))
    /\ pc = "test" => (Len(deltas) = m - 1 /\ start_score = C28_Sum(deltas))
    /\ pc \in {"ret", "record"} =>
            (Len(deltas) = m /\ sol.score = C28_Sum(deltas))
    /\ (pc = "loop" /\ cur > 1 /\ seen[cur - 1]) =>
            /\ Len(deltas) = Len(modules)
            /\ result[cur - 1] = C28_Sum(deltas)

\* A recorded score that three stages changed.
C28_Witness ==
    /\ pc = "loop"
    /\ cur > 1
    /\ seen[cur - 1]
    /\ result[cur - 1] = C28_Sum(deltas)
    /\ result[cur - 1] # 0
    /\ Cardinality({i \in 1..Len(deltas) : deltas[i] # 0}) >= 3

\* The steps of a case with or without a stdin payload, whose wait timed out
\* or not, in the order of the code.
C29_Steps(stdin, timedout) ==
    <<"Spawn">> \o (IF stdin THEN <<"WriteStdin">> ELSE <<>>) \o <<"Wait">>
    \o (IF timedout THEN <<"Kill", "Reap">> ELSE <<>>) \o <<"Match">>

C29_IsPrefix(s, t) == Len(s) <= Len(t) /\ s = SubSeq(t, 1, Len(s))

\* C29: the steps taken for a test case are a prefix of Spawn, WriteStdin
\* (only with a stdin payload), Wait, Kill and Reap (only when the wait timed
\* out), Match: the output is matched only when the process has exited or has
\* been killed, and has been reaped, and nothing is written to stdin once the
\* wait began.
C29_CaseOrder ==
    (pc = "test" /\ ci >= 1 /\ trace # <<>>) =>
        /\ C29_IsPrefix(trace, C29_Steps(CurCase.stdin.some, child.timedout))
        /\ (trace[Len(trace)] = "Match") =>
                (child.status \in {"exited", "killed"} /\ child.reaped)

\* A case with a payload whose process was killed after the timeout.
C29_Witness ==
    /\ pc = "test"
    /\ trace = <<"Spawn", "WriteStdin", "Wait", "Kill", "Reap", "Match">>
    /\ child.status = "killed"

\* C30: the test stage returns an error only from a failed spawn, wait, kill
\* or reap, and that error is the one of the failed call; matching never ends
\* the stage, and when the list of tests is exhausted the stage returns
\* success whatever cases passed or failed.
C30_OnlyProcessFailuresAreErrors ==
    [][(pc = "test" /\ pc' # "test") =>
         IF tpc = "head"
         THEN mret' = Ok
         ELSE /\ tpc \in {"case", "wait", "timeout", "killed"}
              /\ mret' = SolutionExecErr]_vars

\* The stage returned success after two tests, one fulfilled and one not.
C30_Witness ==
    /\ tpc = "returned"
    /\ mret = Ok
    /\ awards = 2
    /\ due \in TestScores

\* The header a line names when it is an angle-bracket include: #include at
\* the start of the line, a < after optional spaces, and the name up to the
\* first > behind it.  <<"none">> for any other line.
C31_Header(line) ==
    LET at == IF line = <<>> THEN <<0, 0>> ELSE IncludeMatchAt(line, 1)
    IN  IF at = <<0, 0>> THEN <<"none">>
        ELSE LET first == CHOOSE c \in (at[1] + 1)..at[2] :
                             /\ line[c] = ">"
                             /\ \A b \in (at[1] + 1)..(c - 1) : line[b] # ">"
             IN  SubSeq(line, at[1] + 1, first - 1)

\* C31: after a successful parser stage the name of every angle-bracket
\* include of the source is in the included list, no angle-bracket include
\* line was sent to the preprocessor, and no stored line begins with #.
C31_IncludesListedAndStripped ==
    (res.done /\ arg.fn = "Source") =>
        LET lines == Lines(arg.text)
        IN  /\ \A n \in 1..Len(lines) :
                    C31_Header(lines[n]) # <<"none">> =>
                        \E k \in 1..Len(res.out.included) :
                            res.out.included[k] = C31_Header(lines[n])
            /\ \A n \in 1..Len(res.out.sent) :
                    C31_Header(res.out.sent[n]) = <<"none">>
            /\ \A n \in 1..Len(res.out.source) :
                    res.out.source[n] = <<>> \/ res.out.source[n][1] # "#"

RECURSIVE C33_Cases(_, _)
C33_Cases(ts, n) ==
    IF n = 0 THEN 0 ELSE C33_Cases(ts, n - 1) + Len(ts[n].test_cases)

\* The processes the stage has spawned: one for each case of the tests taken
\* but those that have none yet.
C33_Spawned == C33_Cases(tests, ti) - unspawned

\* C33, as stated: a test stage that returned success spawned one process for
\* each case of each configured test, and whenever the stage is between two
\* tests every case of the last test was spawned and evaluated, whatever the
\* earlier cases decided.
C33_EveryCaseSpawned ==
    /\ (pc = "ret" /\ modules[m].kind = "TestExec" /\ mret = Ok) =>
            C33_Spawned = C33_Cases(tests, Len(tests))
    /\ (pc = "test" /\ tpc = "head") =>
            /\ spawns = [i \in 1..Len(test.test_cases) |-> i]
            /\ Len(outcomes) = Len(test.test_cases)

\* C33, amended: the same of a stage that found the binary; a stage that did
\* not returns success without spawning anything.
C33_EveryCaseSpawnedGivenBinary ==
    /\ (pc = "ret" /\ modules[m].kind = "TestExec" /\ mret = Ok) =>
            C33_Spawned = (IF fs.bin # "absent" THEN C33_Cases(tests, Len(tests)) ELSE 0)
    /\ (pc = "test" /\ tpc = "head") =>
            /\ spawns = [i \in 1..Len(test.test_cases) |-> i]
            /\ Len(outcomes) = Len(test.test_cases)

\* The stage returned success after four processes, although the first test
\* (ALL) had lost its score with its first case: only the 25 of the second
\* test were awarded.
C33_Witness ==
    /\ pc = "ret"
    /\ modules[m].kind = "TestExec"
    /\ mret = Ok
    /\ fs.bin # "absent"
    /\ C33_Spawned = 4
    /\ deltas[Len(deltas)] = 25

\* C34: when the binary exists, a test without cases adds its whole score to
\* the solution's under ALL and nothing under ANY.
C34_EmptyTest ==
    (pc = "test" /\ tpc = "head" /\ ti > 0 /\ test.test_cases = <<>>) =>
        /\ fs.bin # "absent"
        /\ last_delta = (IF test.requirement = "ALL" THEN test.score ELSE 0)

\* A test without cases under ALL has just been awarded its score.
C34_Witness ==
    /\ pc = "test"
    /\ tpc = "head"
    /\ ti > 0
    /\ test.test_cases = <<>>
    /\ test.requirement = "ALL"
    /\ last_delta = test.score
    /\ sol.score = start_score + due

\* C35: kill is called only on a process whose bounded wait returned without
\* an exit status, and once for a case at most; the outcome of a case is the
\* match of what its process wrote, whether the process exited in time, was
\* killed, or exited by itself after the timeout; and a case is spawned only
\* when the process of the case before it has been reaped.
C35_KillOnlyAfterTimeout ==
    [][ /\ (tpc = "timeout" /\ trace' = Append(trace, "Kill")) =>
                /\ child.timedout
                /\ trace[Len(trace)] = "Wait"
                /\ \A k \in 1..Len(trace) : trace[k] # "Kill"
        /\ (tpc = "match" /\ trace' = Append(trace, "Match")) =>
                /\ child.reaped
                /\ \E out \in Streams, err \in Streams :
                        outcomes' = Append(outcomes,
                            /\ match_output(out, CurCase.stdout, CurCase.case_insensitive)
                            /\ match_output(err, CurCase.stderr, CurCase.case_insensitive))
        /\ (pc = "test" /\ ci' = ci + 1) =>
                (child = NoChild \/ child.reaped)
        /\ (pc = "test" /\ child.status = "exited" /\ ~child.timedout) =>
                (trace' = trace \/ trace' = <<>> \/ trace'[Len(trace')] # "Kill")
      ]_vars

\* A process that exited by itself between the timeout and the kill: it was
\* killed and reaped all the same, and its case passed on its output.
C35_Witness ==
    /\ pc = "test"
    /\ trace = <<"Spawn", "WriteStdin", "Wait", "Kill", "Reap", "Match">>
    /\ child.status = "exited"
    /\ child.timedout
    /\ child.reaped
    /\ Len(outcomes) = ci
    /\ ci > 0
    /\ CurCase.stdout.some
    /\ outcomes[Len(outcomes)]

\* The penalties of the analysers before analyser n of the list as that
\* look a header up and find it among the included ones of solution s.
RECURSIVE C36_HeaderPenalties(_, _, _)
C36_HeaderPenalties(as, s, n) ==
    IF n = 1 THEN 0
    ELSE C36_HeaderPenalties(as, s, n - 1)
         + (IF /\ as[n - 1].kind = "NoHeader"
               /\ \E i \in 1..Len(s.included) : s.included[i] = as[n - 1].header
            THEN as[n - 1].penalty ELSE 0)

\* C36: when the test stage returns an error, the solution keeps the scores
\* of the tests fulfilled before, and the test that failed adds nothing; when
\* the analysis stage returns an error, the solution keeps the penalties of
\* the analysers before the one that failed, which adds nothing; and run
\* returns that error with no result map, the solution in none.
C36_PartialScoreKept ==
    (pc \in {"ret", "done"} /\ mret \in Errors) =>
        /\ modules[m].kind = "TestExec" =>
                /\ sol.score = start_score + due
                /\ deltas[Len(deltas)] = due
        /\ modules[m].kind = "AnalysesExec" =>
                \E n \in 1..Len(analysers) :
                    /\ analysers[n].kind # "NoHeader"
                    /\ \A i \in 1..(n - 1) : analysers[i].kind = "NoHeader"
                    /\ deltas[Len(deltas)] = C36_HeaderPenalties(analysers, sol, n)
        /\ cur \notin DOMAIN result
        /\ pc = "done" => ret = RetErr(mret)

\* run returned the error of a process of the second test that could not be
\* spawned; the solution has the 10 points of the first test.
C36_Witness ==
    /\ pc = "done"
    /\ ret = RetErr(SolutionExecErr)
    /\ modules[m].kind = "TestExec"
    /\ ti = 2
    /\ due = 10
    /\ sol.score = start_score + 10
    /\ result = <<>>

\* The stage a step of run belongs to, if any.
C37_Stage ==
    IF pc = "call" THEN modules[m].kind
    ELSE IF pc = "test" THEN "TestExec"
    ELSE "none"

\* C37: a step of the parser stage leaves the score as it is; a step of the
\* compiler, test, analysis or script stage leaves the included headers and
\* the preprocessed source as they are; and a step of any stage leaves the
\* solution's directory and the names of its source, object and binary files
\* as they are.
C37_StagesKeepToTheirFields ==
    [][ /\ (C37_Stage = "Parser") => (sol'.score = sol.score)
        /\ (C37_Stage \in {"Compiler", "TestExec", "AnalysesExec", "ScriptExec"}) =>
                /\ sol'.included = sol.included
                /\ sol'.source = sol.source
        /\ (C37_Stage # "none") =>
                /\ sol'.path = sol.path
                /\ sol'.src_file = sol.src_file
                /\ sol'.obj_file = sol.obj_file
                /\ sol'.bin_file = sol.bin_file
      ]_vars

\* The analysers have just taken points from the second solution, which the
\* compiler left with a warning and the parser with its headers and source;
\* its directory and file names are those of Solution::new.
C37_Witness ==
    /\ pc = "ret"
    /\ cur = 2
    /\ modules[m].kind = "AnalysesExec"
    /\ deltas[1] = -WarningPenalty
    /\ deltas[Len(deltas)] < 0
    /\ sol.included # <<>>
    /\ sol.source # ""
    /\ sol.path = 2
    /\ sol.src_file = <<"m", ".", "c">>
    /\ sol.obj_file = <<"m", ".", "o">>
    /\ sol.bin_file = <<"m">>

====
